---- MODULE Spec2Model ----
(***************************************************************************)
(* Model of the MCPP lexical analyzer ("Lexical Analyzer/src/lexer.rs").   *)
(*                                                                         *)
(* A text (source, lexeme, symbol name) is a Rust String: a sequence of     *)
(* UTF-8 bytes.  An ASCII character is one byte, written as the            *)
(* one-character string; the two-byte character U+00E9 (a letter outside   *)
(* ASCII) is the bytes "C3" "A9".  Lexer.position is used both as a byte   *)
(* offset (source.len(), &source[position..]) and as a character index     *)
(* (chars().nth(position)); the two agree while the consumed text is       *)
(* ASCII.                                                                  *)
(***************************************************************************)
EXTENDS Integers, Sequences, FiniteSets, TLC

\* ------------------------------------------------------------------------
\* Bounds of the model
\* ------------------------------------------------------------------------

\* A source text is the concatenation of at most MaxPieces pieces.
MaxPieces == 3

\* tokenize is invoked at most MaxCalls times on one Lexer.
MaxCalls == 2

\* ------------------------------------------------------------------------
\* Characters
\* ------------------------------------------------------------------------

Digit == {"0", "1", "2", "3", "4", "5", "6", "7", "8", "9"}

Lower == {"a", "b", "c", "d", "e", "f", "g", "h", "i", "j", "k", "l", "m",
          "n", "o", "p", "q", "r", "s", "t", "u", "v", "w", "x", "y", "z"}

Upper == {"A", "B", "C", "D", "E", "F", "G", "H", "I", "J", "K", "L", "M",
          "N", "O", "P", "Q", "R", "S", "T", "U", "V", "W", "X", "Y", "Z"}

\* [a-zA-Z_]
IdentStart == Lower \cup Upper \cup {"_"}

\* [a-zA-Z0-9_]
WordChar == IdentStart \cup Digit

\* the second byte of the two-byte character
ContinuationByte == {"A9"}

\* the first byte of a character of the regex class \w, which \b is defined
\* by: Unicode-aware, so the two-byte letter is one
UnicodeWordChar == WordChar \cup {"C3"}

\* str::chars: one entry per character, a character being named by its
\* first byte
Chars(text) ==
    LET IsFirstByte(b) == b \notin ContinuationByte
    IN  SelectSeq(text, IsFirstByte)

\* text.chars().nth(n)
nth(text, n) ==
    IF n < Len(Chars(text)) THEN <<Chars(text)[n + 1]>> ELSE <<>>

\* str::is_char_boundary: a slice &text[off..] panics where it is FALSE
is_char_boundary(text, off) ==
    \/ off = Len(text)
    \/ off < Len(text) /\ text[off + 1] \notin ContinuationByte

\* char::is_whitespace on ASCII characters
IsWhitespace(ch) == ch \in {" ", "\t", "\n", "\r", "\f"}

Min(S) == CHOOSE x \in S : \A y \in S : x <= y

\* ------------------------------------------------------------------------
\* The recognizers of the pattern table.  Each takes the text `remaining`
\* (the source from the current offset on) and yields the length of the
\* match that starts at its first character, 0 when find() reports no match
\* or a match that starts later.
\* ------------------------------------------------------------------------

\* remaining = &self.source[self.position..]
Remaining(src, pos) == SubSeq(src, pos + 1, Len(src))

HasPrefix(rem, w) == Len(rem) >= Len(w) /\ SubSeq(rem, 1, Len(w)) = w

\* the character i of rem is a word character (FALSE outside the text)
WordAt(rem, i) == i >= 1 /\ i <= Len(rem) /\ rem[i] \in UnicodeWordChar

\* \b between character i and character i+1 of rem; the regex sees the
\* slice only, so there is no word character before its first character.
WordBoundary(rem, i) == WordAt(rem, i) # WordAt(rem, i + 1)

\* number of consecutive characters of S from character i of rem on
RECURSIVE RunLen(_, _, _)
RunLen(rem, i, S) ==
    IF i <= Len(rem) /\ rem[i] \in S THEN 1 + RunLen(rem, i + 1, S) ELSE 0

\* MatchLiteral that matches the patterns of one character only: the rules
\* of the two-character operators never match (C16 must not survive it)
MatchLiteral_OneChar(rem, w) ==
    IF Len(w) = 1 /\ HasPrefix(rem, w) THEN 1 ELSE 0

\* a literal pattern such as r"&&" or r"\("
MatchLiteral(rem, w) == IF HasPrefix(rem, w) THEN Len(w) ELSE 0

\* a whole-word pattern r"\bw\b"
MatchWord(rem, w) ==
    IF WordBoundary(rem, 0) /\ HasPrefix(rem, w) /\ WordBoundary(rem, Len(w))
    THEN Len(w) ELSE 0

\* r"(?s)/\*.*?\*/": up to the first "*/" after the opening "/*"
MatchBlockComment(rem) ==
    LET ends == {j \in 3..(Len(rem) - 1) : rem[j] = "*" /\ rem[j + 1] = "/"}
    IN  IF HasPrefix(rem, <<"/", "*">>) /\ ends # {} THEN Min(ends) + 1 ELSE 0

\* r"//.*": up to, not including, the next newline
MatchLineComment(rem) ==
    LET nls == {j \in 3..Len(rem) : rem[j] = "\n"}
    IN  IF ~HasPrefix(rem, <<"/", "/">>) THEN 0
        ELSE IF nls = {} THEN Len(rem) ELSE Min(nls) - 1

\* the body and the closing quote of r#""([^"\\]|\\.)*""#, from byte i; a
\* continuation byte is passed over like a character of [^"\\]
RECURSIVE StringEnd(_, _)
StringEnd(rem, i) ==
    IF i > Len(rem) THEN 0
    ELSE IF rem[i] = "\"" THEN i
    ELSE IF rem[i] = "\\"
         THEN IF i + 1 <= Len(rem) /\ rem[i + 1] # "\n"
              THEN StringEnd(rem, i + 2) ELSE 0
    ELSE StringEnd(rem, i + 1)

MatchString(rem) == IF HasPrefix(rem, <<"\"">>) THEN StringEnd(rem, 2) ELSE 0

\* the number of bytes of the character that starts at byte i of rem
CharWidth(rem, i) ==
    IF i + 1 <= Len(rem) /\ rem[i + 1] \in ContinuationByte THEN 2 ELSE 1

\* r"'([^'\\]|\\.)'"
MatchCharLit(rem) ==
    IF ~HasPrefix(rem, <<"'">>) \/ Len(rem) < 3 THEN 0
    ELSE IF rem[2] \notin {"'", "\\"}
         THEN LET close == 2 + CharWidth(rem, 2)
              IN  IF close <= Len(rem) /\ rem[close] = "'" THEN close ELSE 0
    ELSE IF rem[2] = "\\" /\ rem[3] # "\n"
         THEN LET close == 3 + CharWidth(rem, 3)
              IN  IF close <= Len(rem) /\ rem[close] = "'" THEN close ELSE 0
    ELSE 0

\* r"\d+\.\d+([eE][+-]?\d+)?"
MatchFloat(rem) ==
    LET d1   == RunLen(rem, 1, Digit)
        d2   == RunLen(rem, d1 + 2, Digit)
        base == d1 + 1 + d2
        sign == IF base + 2 <= Len(rem) /\ rem[base + 2] \in {"+", "-"}
                THEN 1 ELSE 0
        d3   == RunLen(rem, base + 2 + sign, Digit)
    IN  IF d1 = 0 \/ d1 + 1 > Len(rem) \/ rem[d1 + 1] # "." \/ d2 = 0 THEN 0
        ELSE IF base + 1 <= Len(rem) /\ rem[base + 1] \in {"e", "E"} /\ d3 > 0
             THEN base + 1 + sign + d3
        ELSE base

\* r"\d+"
MatchInteger(rem) == RunLen(rem, 1, Digit)

\* r"[a-zA-Z_][a-zA-Z0-9_]*"
MatchIdentifier(rem) ==
    IF Len(rem) >= 1 /\ rem[1] \in IdentStart
    THEN 1 + RunLen(rem, 2, WordChar) ELSE 0

\* ------------------------------------------------------------------------
\* The pattern table, in the order initialize_patterns pushes the rules
\* ------------------------------------------------------------------------

Rule(token_type, re, text) == [token_type |-> token_type, re |-> re, text |-> text]

patterns ==
    << Rule("Comment",        "block_comment", <<>>),
       Rule("Comment",        "line_comment",  <<>>),
       Rule("StringLiteral",  "string",        <<>>),
       Rule("CharLiteral",    "char",          <<>>),
       Rule("FloatLiteral",   "float",         <<>>),
       Rule("IntegerLiteral", "integer",       <<>>),
       Rule("BoolLiteral",    "bool",          <<>>),
       Rule("LogicalAnd",     "literal", <<"&", "&">>),
       Rule("LogicalOr",      "literal", <<"|", "|">>),
       Rule("Equal",          "literal", <<"=", "=">>),
       Rule("NotEqual",       "literal", <<"!", "=">>),
       Rule("LessEqual",      "literal", <<"<", "=">>),
       Rule("GreaterEqual",   "literal", <<">", "=">>),
       Rule("Increment",      "literal", <<"+", "+">>),
       Rule("Decrement",      "literal", <<"-", "-">>),
       Rule("Plus",           "literal", <<"+">>),
       Rule("Minus",          "literal", <<"-">>),
       Rule("Multiply",       "literal", <<"*">>),
       Rule("Divide",         "literal", <<"/">>),
       Rule("Modulo",         "literal", <<"%">>),
       Rule("Assign",         "literal", <<"=">>),
       Rule("LessThan",       "literal", <<"<">>),
       Rule("GreaterThan",    "literal", <<">">>),
       Rule("Semicolon",      "literal", <<";">>),
       Rule("Comma",          "literal", <<",">>),
       Rule("LeftParen",      "literal", <<"(">>),
       Rule("RightParen",     "literal", <<")">>),
       Rule("LeftBrace",      "literal", <<"{">>),
       Rule("RightBrace",     "literal", <<"}">>),
       Rule("LeftBracket",    "literal", <<"[">>),
       Rule("RightBracket",   "literal", <<"]">>),
       Rule("Include",        "word", <<"#", "i", "n", "c", "l", "u", "d", "e">>),
       Rule("Define",         "word", <<"#", "d", "e", "f", "i", "n", "e">>),
       Rule("Int",            "word", <<"i", "n", "t">>),
       Rule("Float",          "word", <<"f", "l", "o", "a", "t">>),
       Rule("Char",           "word", <<"c", "h", "a", "r">>),
       Rule("Bool",           "word", <<"b", "o", "o", "l">>),
       Rule("String",         "word", <<"s", "t", "r", "i", "n", "g">>),
       Rule("If",             "word", <<"i", "f">>),
       Rule("Else",           "word", <<"e", "l", "s", "e">>),
       Rule("While",          "word", <<"w", "h", "i", "l", "e">>),
       Rule("For",            "word", <<"f", "o", "r">>),
       Rule("Return",         "word", <<"r", "e", "t", "u", "r", "n">>),
       Rule("Identifier",     "identifier", <<>>) >>

\* r"\b(true|false)\b"
MatchBool(rem) ==
    IF MatchWord(rem, <<"t", "r", "u", "e">>) > 0 THEN 4
    ELSE MatchWord(rem, <<"f", "a", "l", "s", "e">>)

\* pattern.find(remaining), kept only when mat.start() == 0: the length of
\* the match, 0 when the rule does not match at the current offset
MatchRule(rule, rem) ==
    CASE rule.re = "block_comment" -> MatchBlockComment(rem)
      [] rule.re = "line_comment"  -> MatchLineComment(rem)
      [] rule.re = "string"        -> MatchString(rem)
      [] rule.re = "char"          -> MatchCharLit(rem)
      [] rule.re = "float"         -> MatchFloat(rem)
      [] rule.re = "integer"       -> MatchInteger(rem)
      [] rule.re = "bool"          -> MatchBool(rem)
      [] rule.re = "literal"       -> MatchLiteral(rem, rule.text)
      [] rule.re = "word"          -> MatchWord(rem, rule.text)
      [] rule.re = "identifier"    -> MatchIdentifier(rem)

\* FirstMatch with the table read from its end: of the rules that match,
\* the last one wins (C11 must not survive it)
FirstMatch_Last(rem) ==
    LET hits == {i \in 1..Len(patterns) : MatchRule(patterns[i], rem) > 0}
    IN  IF hits = {} THEN 0 ELSE CHOOSE i \in hits : \A j \in hits : i >= j

\* the index of the first rule of the table that matches at the start of
\* rem (the for loop breaks at it), 0 when none does
FirstMatch(rem) ==
    LET hits == {i \in 1..Len(patterns) : MatchRule(patterns[i], rem) > 0}
    IN  IF hits = {} THEN 0 ELSE Min(hits)

\* ------------------------------------------------------------------------
\* Helpers of the Lexer
\* ------------------------------------------------------------------------

\* Option<T>
None == <<>>
Some(v) == <<v>>

\* Token::new
Token(token_type, lexeme, ln, col) ==
    [token_type |-> token_type, lexeme |-> lexeme, line |-> ln, column |-> col]

\* Token::to_compiler_format
to_compiler_format(t) ==
    <<"<", t.token_type, ", ", t.lexeme, ", ", t.line, ", ", t.column, ">">>

\* SymbolTable::new
NewSymbolTable == [symbols |-> <<>>, current_scope |-> "global"]

\* add_symbol that keeps one entry for each name: a name that is in the
\* table already is not added again (C17 must not survive it)
add_symbol_Merged(table, name, symbol_type, data_type, ln) ==
    IF \E i \in 1..Len(table.symbols) : table.symbols[i].name = name
    THEN table
    ELSE [table EXCEPT !.symbols =
             Append(@, [name |-> name, symbol_type |-> symbol_type,
                        data_type |-> data_type,
                        scope |-> table.current_scope, line |-> ln])]

\* SymbolTable::add_symbol
add_symbol(table, name, symbol_type, data_type, ln) ==
    [table EXCEPT !.symbols =
        Append(@, [name |-> name, symbol_type |-> symbol_type,
                   data_type |-> data_type, scope |-> table.current_scope,
                   line |-> ln])]

\* check_keyword that knows no keyword: every match of the identifier rule
\* stays an identifier (C12 must not survive it)
check_keyword_Never(lexeme) == None

\* Lexer::check_keyword
check_keyword(lexeme) ==
    CASE lexeme = <<"i", "n", "t">>                          -> Some("Int")
      [] lexeme = <<"f", "l", "o", "a", "t">>                -> Some("Float")
      [] lexeme = <<"c", "h", "a", "r">>                     -> Some("Char")
      [] lexeme = <<"b", "o", "o", "l">>                     -> Some("Bool")
      [] lexeme = <<"s", "t", "r", "i", "n", "g">>           -> Some("String")
      [] lexeme = <<"i", "f">>                               -> Some("If")
      [] lexeme = <<"e", "l", "s", "e">>                     -> Some("Else")
      [] lexeme = <<"w", "h", "i", "l", "e">>                -> Some("While")
      [] lexeme = <<"f", "o", "r">>                          -> Some("For")
      [] lexeme = <<"r", "e", "t", "u", "r", "n">>           -> Some("Return")
      [] lexeme = <<"#", "i", "n", "c", "l", "u", "d", "e">> -> Some("Include")
      [] lexeme = <<"#", "d", "e", "f", "i", "n", "e">>      -> Some("Define")
      [] OTHER                                               -> None

\* get_data_type that gives the name of the token kind in place of the
\* name of the type (C18 must not survive it)
get_data_type_KindName(token_type) ==
    IF token_type \in {"Int", "Float", "Char", "Bool", "String"}
    THEN Some(token_type) ELSE None

\* Lexer::get_data_type
get_data_type(token_type) ==
    CASE token_type = "Int"    -> Some("int")
      [] token_type = "Float"  -> Some("float")
      [] token_type = "Char"   -> Some("char")
      [] token_type = "Bool"   -> Some("bool")
      [] token_type = "String" -> Some("string")
      [] OTHER                 -> None

\* the scanner's place in the source
Cursor(pos, ln, col) == [position |-> pos, line |-> ln, column |-> col]

\* Step with the line count forgotten: a newline only resets the column
\* (C9 must not survive it)
Step_NoLineIncrement(cur, ch) ==
    IF ch = "\n"
    THEN Cursor(cur.position + 1, cur.line, 1)
    ELSE Cursor(cur.position + 1, cur.line, cur.column + 1)

\* one character consumed: a newline starts a line, any other character
\* is one more column
Step(cur, ch) ==
    IF ch = "\n"
    THEN Cursor(cur.position + 1, cur.line + 1, 1)
    ELSE Cursor(cur.position + 1, cur.line, cur.column + 1)

\* Lexer::skip_whitespace: the cursor after the whitespace at the cursor;
\* it stops, too, where chars().nth(position) is None, and panics there
RECURSIVE skip_whitespace(_, _)
skip_whitespace(src, cur) ==
    IF /\ cur.position < Len(src)
       /\ nth(src, cur.position) # <<>>
       /\ IsWhitespace(nth(src, cur.position)[1])
    THEN skip_whitespace(src, Step(cur, nth(src, cur.position)[1]))
    ELSE cur

\* chars().nth(position).unwrap() panics: the loop condition, in bytes,
\* holds at a position that is past the last character
unwrap_panics(src, pos) == pos < Len(src) /\ nth(src, pos) = <<>>

\* "for ch in lexeme.chars()": the cursor after the matched text
RECURSIVE Advance(_, _)
Advance(cur, lexeme) ==
    IF lexeme = <<>> THEN cur
    ELSE IF Head(lexeme) \in ContinuationByte THEN Advance(cur, Tail(lexeme))
    ELSE Advance(Step(cur, Head(lexeme)), Tail(lexeme))

ControlKeywords == {"If", "Else", "While", "For", "Return"}

\* Classify with the reset after an identifier forgotten: the pending
\* declared type goes on to the next identifier (C3 must not survive it)
Classify_NoReset(token_type, lexeme, start_line, pending, table) ==
    LET typed == IF get_data_type(token_type) # None
                 THEN get_data_type(token_type) ELSE pending
    IN  IF token_type # "Identifier"
        THEN [final_token_type |-> token_type,
              last_type_keyword |-> typed, symbol_table |-> table]
        ELSE [final_token_type |-> token_type,
              last_type_keyword |-> typed,
              symbol_table |->
                  add_symbol(table, lexeme, "variable",
                             IF typed # None THEN typed[1] ELSE "unknown",
                             start_line)]

\* Classify with the pending declared type dropped by every token that is
\* not a type keyword (C15 must not survive it)
Classify_DropsPending(token_type, lexeme, start_line, pending, table) ==
    LET typed == get_data_type(token_type)
        kw    == check_keyword(lexeme)
    IN  IF token_type # "Identifier"
        THEN [final_token_type |-> token_type,
              last_type_keyword |-> typed, symbol_table |-> table]
        ELSE IF kw # None
        THEN [final_token_type |-> kw[1],
              last_type_keyword |-> None, symbol_table |-> table]
        ELSE [final_token_type |-> token_type,
              last_type_keyword |-> None,
              symbol_table |->
                  add_symbol(table, lexeme, "variable",
                             IF pending # None THEN pending[1] ELSE "unknown",
                             start_line)]

\* The classification of a match of rule token_type with text lexeme that
\* starts on start_line: the token's final kind, the pending declared type
\* and the symbol table afterwards.
Classify(token_type, lexeme, start_line, pending, table) ==
    LET typed == IF get_data_type(token_type) # None
                 THEN get_data_type(token_type) ELSE pending
        kw    == check_keyword(lexeme)
    IN  IF token_type # "Identifier"
        THEN [final_token_type |-> token_type,
              last_type_keyword |-> typed, symbol_table |-> table]
        ELSE IF kw # None
        THEN [final_token_type |-> kw[1],
              last_type_keyword |->
                  IF kw[1] \in ControlKeywords THEN None ELSE typed,
              symbol_table |-> table]
        ELSE [final_token_type |-> token_type,
              last_type_keyword |-> None,
              symbol_table |->
                  add_symbol(table, lexeme, "variable",
                             IF typed # None THEN typed[1] ELSE "unknown",
                             start_line)]

\* the Err value of tokenize
LexicalErrorMessage(ch, ln, col) ==
    <<"Lexical Error: Invalid character '", ch, "' at line ", ln,
      ", column ", col>>

\* EofToken built with the enum's neighbouring kind, Comment, in place of
\* EOF (C1 must not survive it)
EofToken_WrongKind(ln, col) ==
    [token_type |-> "Comment", lexeme |-> <<"E", "O", "F">>,
     line |-> ln, column |-> col]

\* the EOF token tokenize ends a run with
EofToken(ln, col) == Token("EOF", <<"E", "O", "F">>, ln, col)

\* ------------------------------------------------------------------------
\* Source texts
\* ------------------------------------------------------------------------

\* the pieces the source texts are put together from
Pieces ==
    { <<"i", "n", "t", " ">>,
      <<"i", "f", " ">>,
      <<"x">>,
      <<",", "y">>,
      <<"3">>,
      <<"\"">>,
      <<" ">>,
      <<"\n">>,
      <<"/", "/">>,
      <<"/", "*">>,
      <<"*", "/">>,
      <<"@">>,
      <<"#", "i", "n", "c", "l", "u", "d", "e">>,
      <<"i", "n", "t", "C3", "A9">> }

RECURSIVE Texts(_)
Texts(n) ==
    IF n = 0 THEN {<<>>}
    ELSE LET shorter == Texts(n - 1)
         IN  shorter \cup {t \o p : t \in shorter, p \in Pieces}

Sources == Texts(MaxPieces)

\* the texts put together from at most n pieces of the set P
RECURSIVE TextsFrom(_, _)
TextsFrom(P, n) ==
    IF n = 0 THEN {<<>>}
    ELSE LET shorter == TextsFrom(P, n - 1)
         IN  shorter \cup {t \o p : t \in shorter, p \in P}

\* pieces of numeric literals: digits, fractions and exponents, whole and
\* broken off
NumPieces ==
    { <<"3">>,
      <<".", "3">>,
      <<".">>,
      <<"e", "3">>,
      <<"e", "+", "3">>,
      <<"E", "-", "3">>,
      <<"e", "+">>,
      <<" ">>,
      <<"/", "/">>,
      <<"\"", "C3", "A9", "\"">> }

NumSources == TextsFrom(NumPieces, MaxPieces)

\* pieces of operators: the characters the two-character operators are
\* made of
OpPieces ==
    { <<"&">>, <<"|">>, <<"=">>, <<"!">>, <<"<">>, <<">">>, <<"+">>, <<"-">>,
      <<"a">>,
      <<" ">>,
      <<"/">>,
      <<"\"", "C3", "A9", "\"">> }

OpSources == TextsFrom(OpPieces, MaxPieces)

\* pieces with a string literal and a comment that hold the two-byte
\* character U+00E9
WidePieces ==
    { <<"\"", "C3", "A9", "\"">>,
      <<"/", "*", "C3", "A9", "*", "/">>,
      <<"x">>,
      <<"\"">>,
      <<"@">>,
      <<" ">>,
      <<"\n">>,
      <<"i", "n", "t", " ">> }

WideSources == TextsFrom(WidePieces, MaxPieces)

\* ------------------------------------------------------------------------
\* State
\* ------------------------------------------------------------------------

VARIABLES
    source,             \* Lexer.source
    position,           \* Lexer.position
    line,               \* Lexer.line
    column,             \* Lexer.column
    tokens,             \* Lexer.tokens
    symbol_table,       \* Lexer.symbol_table
    last_type_keyword,  \* Lexer.last_type_keyword
    pc,                 \* where the caller or the running tokenize stands
    calls,              \* how many times tokenize has been invoked
    result,             \* what the last finished tokenize returned
    output              \* what the last accessor returned or printed

vars == <<source, position, line, column, tokens, symbol_table,
          last_type_keyword, pc, calls, result, output>>

lexer == <<source, position, line, column, tokens, symbol_table,
           last_type_keyword>>

cursor == Cursor(position, line, column)

remaining == Remaining(source, position)

\* Lexer::new
Init ==
    /\ source \in Sources
    /\ position = 0
    /\ line = 1
    /\ column = 1
    /\ tokens = <<>>
    /\ symbol_table = NewSymbolTable
    /\ last_type_keyword = None
    /\ pc = "idle"
    /\ calls = 0
    /\ result = None
    /\ output = None

\* ------------------------------------------------------------------------
\* Lexer::tokenize
\* ------------------------------------------------------------------------

\* the caller invokes tokenize: it takes the Lexer by &mut self, so what the
\* accessors lent out before is no longer held
Tokenize ==
    /\ pc = "idle"
    /\ calls < MaxCalls
    /\ pc' = "loop"
    /\ calls' = calls + 1
    /\ output' = None
    /\ UNCHANGED <<lexer, result>>

\* the head of the while loop: skip_whitespace, and break at the end
SkipWhitespace ==
    /\ pc = "loop"
    /\ position < Len(source)
    /\ LET cur == skip_whitespace(source, cursor)
       IN  /\ ~unwrap_panics(source, cur.position)
           /\ position' = cur.position
           /\ line' = cur.line
           /\ column' = cur.column
           /\ pc' = IF cur.position >= Len(source) THEN "eof" ELSE "match"
    /\ UNCHANGED <<source, tokens, symbol_table, last_type_keyword,
                   calls, result, output>>

\* tokenize panics: in skip_whitespace, at unwrap(), or at the slice
\* &self.source[self.position..]
Panics ==
    IF pc = "loop"
    THEN /\ position < Len(source)
         /\ unwrap_panics(source, skip_whitespace(source, cursor).position)
    ELSE pc = "match" /\ ~is_char_boundary(source, position)

Panic ==
    /\ Panics
    /\ pc' = "panicked"
    /\ UNCHANGED <<lexer, calls, result, output>>

\* MatchComment with the comment filter forgotten: the comment is pushed as
\* a token like any other match (C10 must not survive it)
MatchComment_Pushed ==
    /\ pc = "match"
    /\ is_char_boundary(source, position)
    /\ FirstMatch(Remaining(source, position)) # 0
    /\ LET rule   == patterns[FirstMatch(Remaining(source, position))]
           lexeme == SubSeq(Remaining(source, position), 1,
                            MatchRule(rule, Remaining(source, position)))
           cur    == Advance(Cursor(position, line, column), lexeme)
       IN  /\ rule.token_type = "Comment"
           /\ tokens' = Append(tokens, [token_type |-> "Comment",
                                        lexeme |-> lexeme, line |-> line,
                                        column |-> column])
           /\ position' = cur.position
           /\ line' = cur.line
           /\ column' = cur.column
    /\ pc' = "loop"
    /\ UNCHANGED <<source, symbol_table, last_type_keyword,
                   calls, result, output>>

\* the first matching rule is a comment rule: the text is consumed
MatchComment ==
    /\ pc = "match"
    /\ is_char_boundary(source, position)
    /\ FirstMatch(remaining) # 0
    /\ LET rule   == patterns[FirstMatch(remaining)]
           lexeme == SubSeq(remaining, 1, MatchRule(rule, remaining))
           cur    == Advance(cursor, lexeme)
       IN  /\ rule.token_type = "Comment"
           /\ position' = cur.position
           /\ line' = cur.line
           /\ column' = cur.column
    /\ pc' = "loop"
    /\ UNCHANGED <<source, tokens, symbol_table, last_type_keyword,
                   calls, result, output>>

\* the first matching rule is any other rule: a token is pushed
MatchToken ==
    /\ pc = "match"
    /\ is_char_boundary(source, position)
    /\ FirstMatch(remaining) # 0
    /\ LET rule   == patterns[FirstMatch(remaining)]
           lexeme == SubSeq(remaining, 1, MatchRule(rule, remaining))
           cls    == Classify(rule.token_type, lexeme, line,
                              last_type_keyword, symbol_table)
           cur    == Advance(cursor, lexeme)
       IN  /\ rule.token_type # "Comment"
           /\ last_type_keyword' = cls.last_type_keyword
           /\ symbol_table' = cls.symbol_table
           /\ tokens' = Append(tokens,
                               Token(cls.final_token_type, lexeme, line, column))
           /\ position' = cur.position
           /\ line' = cur.line
           /\ column' = cur.column
    /\ pc' = "loop"
    /\ UNCHANGED <<source, calls, result, output>>

\* no rule matches: tokenize returns Err
LexicalError ==
    /\ pc = "match"
    /\ is_char_boundary(source, position)
    /\ FirstMatch(remaining) = 0
    /\ result' = <<"Err", LexicalErrorMessage(nth(source, position)[1],
                                             line, column)>>
    /\ pc' = "idle"
    /\ UNCHANGED <<lexer, calls, output>>

\* the loop is left: the EOF token is pushed and tokenize returns Ok
AddEOF ==
    /\ \/ pc = "eof"
       \/ pc = "loop" /\ position >= Len(source)
    /\ tokens' = Append(tokens, EofToken(line, column))
    /\ result' = <<"Ok">>
    /\ pc' = "idle"
    /\ UNCHANGED <<source, position, line, column, symbol_table,
                   last_type_keyword, calls, output>>

\* ------------------------------------------------------------------------
\* The accessors
\* ------------------------------------------------------------------------

\* Lexer::get_tokens
GetTokens ==
    /\ pc = "idle"
    /\ output' = <<"get_tokens", tokens>>
    /\ UNCHANGED <<lexer, pc, calls, result>>

\* Lexer::get_symbol_table
GetSymbolTable ==
    /\ pc = "idle"
    /\ output' = <<"get_symbol_table", symbol_table>>
    /\ UNCHANGED <<lexer, pc, calls, result>>

\* Lexer::print_token_stream
PrintTokenStream ==
    /\ pc = "idle"
    /\ output' = <<"print_token_stream",
                   [i \in 1..Len(tokens) |-> to_compiler_format(tokens[i])]>>
    /\ UNCHANGED <<lexer, pc, calls, result>>

\* Lexer::to_json: the array of the tokens' four fields
ToJson ==
    /\ pc = "idle"
    /\ output' = <<"to_json",
                   [i \in 1..Len(tokens) |->
                       <<"token_type", tokens[i].token_type,
                         "lexeme", tokens[i].lexeme,
                         "line", tokens[i].line,
                         "column", tokens[i].column>>]>>
    /\ UNCHANGED <<lexer, pc, calls, result>>

Next ==
    \/ Tokenize
    \/ SkipWhitespace
    \/ MatchComment
    \/ MatchToken
    \/ LexicalError
    \/ AddEOF
    \/ Panic
    \/ GetTokens
    \/ GetSymbolTable
    \/ PrintTokenStream
    \/ ToJson

Spec == Init /\ [][Next]_vars

\* Lexer::new on a text of numeric literals
InitNum ==
    /\ source \in NumSources
    /\ position = 0 /\ line = 1 /\ column = 1
    /\ tokens = <<>>
    /\ symbol_table = NewSymbolTable
    /\ last_type_keyword = None
    /\ pc = "idle" /\ calls = 0 /\ result = None /\ output = None

SpecNum == InitNum /\ [][Next]_vars

\* Lexer::new on a text of operators
InitOp ==
    /\ source \in OpSources
    /\ position = 0 /\ line = 1 /\ column = 1
    /\ tokens = <<>>
    /\ symbol_table = NewSymbolTable
    /\ last_type_keyword = None
    /\ pc = "idle" /\ calls = 0 /\ result = None /\ output = None

SpecOp == InitOp /\ [][Next]_vars

\* Lexer::new on a text with two-byte characters
InitWide ==
    /\ source \in WideSources
    /\ position = 0 /\ line = 1 /\ column = 1
    /\ tokens = <<>>
    /\ symbol_table = NewSymbolTable
    /\ last_type_keyword = None
    /\ pc = "idle" /\ calls = 0 /\ result = None /\ output = None

SpecWide == InitWide /\ [][Next]_vars

\* ------------------------------------------------------------------------
\* The position model of the source text: offsets count from 0, lines and
\* columns from 1
\* ------------------------------------------------------------------------

Max(S) == CHOOSE x \in S : \A y \in S : x >= y

\* the offsets (from 1) of the newlines among the first off characters
NewlinesBefore(src, off) == {k \in 1..off : src[k] = "\n"}

\* the line of the character at offset off
LineAt(src, off) == 1 + Cardinality(NewlinesBefore(src, off))

\* the column of the character at offset off: one more than the number of
\* characters between the last newline before it and it
ColumnAt(src, off) ==
    LET from == IF NewlinesBefore(src, off) = {} THEN 0
                ELSE Max(NewlinesBefore(src, off))
    IN  1 + Cardinality({k \in (from + 1)..off : src[k] \notin ContinuationByte})

Last(seq) == seq[Len(seq)]

Returned(value) == pc = "idle" /\ result # None /\ result[1] = value

\* this step pushes a token
Pushes == Len(tokens') = Len(tokens) + 1

\* the tokens of kind Identifier among the first n tokens
IdentifiersUpTo(n) == {i \in 1..n : tokens[i].token_type = "Identifier"}

Text_int == <<"i", "n", "t">>
Text_if == <<"i", "f">>
Text_x == <<"x">>
Text_y == <<"y">>

\* ------------------------------------------------------------------------
\* Properties
\* ------------------------------------------------------------------------

\* C1: when the first tokenize call on a new Lexer returns Ok, the token
\* sequence is not empty, its last token is EOF with lexeme "EOF", and no
\* other token is EOF.
C1_EndsWithOneEOF ==
    (Returned("Ok") /\ calls = 1) =>
        /\ Len(tokens) >= 1
        /\ Last(tokens).token_type = "EOF"
        /\ Last(tokens).lexeme = <<"E", "O", "F">>
        /\ \A i \in 1..(Len(tokens) - 1) : tokens[i].token_type # "EOF"

\* C1 witness: a first run returned Ok with two tokens before the EOF.
C1_Witness ==
    /\ Returned("Ok") /\ calls = 1
    /\ Len(tokens) = 3
    /\ Last(tokens).token_type = "EOF"

\* C2: a scan step that classifies a token as a control keyword leaves the
\* pending declared type empty, whatever it was before.
C2_ControlKeywordClearsPending ==
    [][(pc = "match" /\ Pushes /\ Last(tokens').token_type \in ControlKeywords)
          => last_type_keyword' = None]_vars

\* C3: a scan step that classifies a token as Identifier appends exactly one
\* Symbol, named by the lexeme, of the pending declared type ("unknown" when
\* none is pending), on the identifier's own line, and leaves the pending
\* declared type empty.
C3_IdentifierConsumesPending ==
    [][(pc = "match" /\ Pushes /\ Last(tokens').token_type = "Identifier")
          => /\ Len(symbol_table'.symbols) = Len(symbol_table.symbols) + 1
             /\ SubSeq(symbol_table'.symbols, 1, Len(symbol_table.symbols))
                    = symbol_table.symbols
             /\ Last(symbol_table'.symbols).name = Last(tokens').lexeme
             /\ Last(symbol_table'.symbols).data_type =
                    (IF last_type_keyword = None THEN "unknown"
                     ELSE last_type_keyword[1])
             /\ Last(symbol_table'.symbols).line = LineAt(source, position)
             /\ Last(symbol_table'.symbols).line = Last(tokens').line
             /\ last_type_keyword' = None]_vars

\* C3 witness: "int x,y" has been scanned: x is an "int", y is "unknown".
C3_Witness ==
    /\ Len(symbol_table.symbols) = 2
    /\ symbol_table.symbols[1].name = Text_x
    /\ symbol_table.symbols[1].data_type = "int"
    /\ symbol_table.symbols[2].name = Text_y
    /\ symbol_table.symbols[2].data_type = "unknown"
    /\ last_type_keyword = None

\* C4: after tokenize has returned Err, the accessors expose no token and
\* no symbol produced before the failure.
C4_NoPartialOutput ==
    (Returned("Err") /\ output # None) =>
        \/ output[1] = "get_symbol_table" /\ output[2].symbols = <<>>
        \/ output[1] # "get_symbol_table" /\ output[2] = <<>>

\* C5: when tokenize has returned Err, the cursor stands, after the
\* whitespace skip, at an offset where no rule matches, and the error reports
\* the character at that offset with its line and column in the source.
C5_ErrorReport ==
    Returned("Err") =>
        /\ position < Len(source)
        /\ ~IsWhitespace(source[position + 1])
        /\ FirstMatch(remaining) = 0
        /\ result[2] = LexicalErrorMessage(source[position + 1],
                                           LineAt(source, position),
                                           ColumnAt(source, position))

\* C6: the run never fails at an offset where "#include" or "#define"
\* stands as a whole word.
C6_PreprocessorKeywordsLex ==
    Returned("Err") =>
        \A w \in { <<"#", "i", "n", "c", "l", "u", "d", "e">>,
                   <<"#", "d", "e", "f", "i", "n", "e">> } :
            ~(HasPrefix(remaining, w) /\ ~WordAt(remaining, Len(w) + 1))

\* C7: once a tokenize call has returned, no operation changes the token
\* sequence or the symbol table.
C7_ReadOnlyAfterRun ==
    [][result # None =>
          (tokens' = tokens /\ symbol_table' = symbol_table)]_vars

\* the offsets of the characters of src that stand at line ln, column col
OffsetsAt(src, ln, col) ==
    {off \in 0..(Len(src) - 1) : /\ src[off + 1] \notin ContinuationByte
                                 /\ LineAt(src, off) = ln
                                 /\ ColumnAt(src, off) = col}

\* C8: after a successful first run every token but the last stands in the
\* source at its (line, column): the character there is the first of its
\* lexeme and the lexeme follows; the EOF token carries the line and column
\* just past the last character.
C8_TokenPositions ==
    (Returned("Ok") /\ calls = 1) =>
        /\ \A i \in 1..(Len(tokens) - 1) :
              \E off \in OffsetsAt(source, tokens[i].line, tokens[i].column) :
                  HasPrefix(Remaining(source, off), tokens[i].lexeme)
        /\ Last(tokens).line = LineAt(source, Len(source))
        /\ Last(tokens).column = ColumnAt(source, Len(source))

\* C9: consecutive tokens, the EOF token included, are in non-decreasing
\* (line, column) order.
C9_PositionsMonotonic ==
    \A i \in 1..(Len(tokens) - 1) :
        \/ tokens[i].line < tokens[i + 1].line
        \/ /\ tokens[i].line = tokens[i + 1].line
           /\ tokens[i].column <= tokens[i + 1].column

\* C9 witness: a successful run whose tokens go on to a second line, at a
\* smaller column.
C9_Witness ==
    /\ Returned("Ok")
    /\ \E i \in 1..(Len(tokens) - 1) :
          /\ tokens[i].line < tokens[i + 1].line
          /\ tokens[i].column > tokens[i + 1].column
          /\ tokens[i + 1].token_type # "EOF"

\* C10: the token sequence never holds a token of kind Comment, and a scan
\* step that matches a comment moves the cursor forward, the line by the
\* newlines of the comment and the column by the characters after the last
\* of them, and changes nothing else.
C10_NoCommentToken ==
    \A i \in 1..Len(tokens) : tokens[i].token_type # "Comment"

C10_CommentErasure ==
    /\ [](C10_NoCommentToken)
    /\ [][(pc = "match" /\ FirstMatch(remaining) # 0
              /\ patterns[FirstMatch(remaining)].token_type = "Comment")
            => /\ tokens' = tokens
               /\ symbol_table' = symbol_table
               /\ last_type_keyword' = last_type_keyword
               /\ position' > position
               /\ LET comment == SubSeq(remaining, 1, MatchRule(
                                     patterns[FirstMatch(remaining)], remaining))
                  IN  /\ line' = line + LineAt(comment, Len(comment)) - 1
                      /\ column' =
                            IF NewlinesBefore(comment, Len(comment)) = {}
                            THEN column + Len(Chars(comment))
                            ELSE ColumnAt(comment, Len(comment))]_vars

\* C10 witness: the block comment "/*\n*/" has been consumed.
C10_Witness ==
    /\ source = <<"/", "*", "\n", "*", "/">>
    /\ position = 5 /\ line = 2 /\ column = 3
    /\ tokens = <<>>

\* digits
IsDigits(text) == text # <<>> /\ \A i \in 1..Len(text) : text[i] \in Digit

\* an exponent: e or E, an optional sign, digits
IsExponent(text) ==
    /\ Len(text) >= 2
    /\ text[1] \in {"e", "E"}
    /\ \/ IsDigits(Tail(text))
       \/ text[2] \in {"+", "-"} /\ IsDigits(SubSeq(text, 3, Len(text)))

\* digits '.' digits, optionally followed by an exponent
IsFloatForm(text) ==
    \E dot \in 2..(Len(text) - 1) : \E end \in (dot + 1)..Len(text) :
        /\ text[dot] = "."
        /\ IsDigits(SubSeq(text, 1, dot - 1))
        /\ IsDigits(SubSeq(text, dot + 1, end))
        /\ end = Len(text) \/ IsExponent(SubSeq(text, end + 1, Len(text)))

\* the lengths of the float forms that rem starts with
FloatForms(rem) == {n \in 1..Len(rem) : IsFloatForm(SubSeq(rem, 1, n))}

\* C11: a scan step at an offset where the text has the form digits '.'
\* digits, with or without an exponent, pushes one FloatLiteral token whose
\* lexeme is the whole (longest) form, and moves the cursor past it.
C11_FloatBeforeInteger ==
    [][(pc = "match" /\ FloatForms(remaining) # {})
          => /\ Pushes
             /\ Last(tokens').token_type = "FloatLiteral"
             /\ Last(tokens').lexeme =
                    SubSeq(remaining, 1, Max(FloatForms(remaining)))
             /\ position' = position + Max(FloatForms(remaining))]_vars

\* C11 witness: "3.3e+3" has been lexed to one FloatLiteral and EOF.
C11_Witness ==
    /\ Returned("Ok")
    /\ source = <<"3", ".", "3", "e", "+", "3">>
    /\ Len(tokens) = 2
    /\ tokens[1] = Token("FloatLiteral", source, 1, 1)

\* the token kind of each reserved word
ReservedWords ==
    { <<<<"i", "n", "t">>, "Int">>,
      <<<<"f", "l", "o", "a", "t">>, "Float">>,
      <<<<"c", "h", "a", "r">>, "Char">>,
      <<<<"b", "o", "o", "l">>, "Bool">>,
      <<<<"s", "t", "r", "i", "n", "g">>, "String">>,
      <<<<"i", "f">>, "If">>,
      <<<<"e", "l", "s", "e">>, "Else">>,
      <<<<"w", "h", "i", "l", "e">>, "While">>,
      <<<<"f", "o", "r">>, "For">>,
      <<<<"r", "e", "t", "u", "r", "n">>, "Return">> }

\* C12: a token whose lexeme is a reserved word has that word's keyword
\* kind, never Identifier, and no Symbol is named by a reserved word.
C12_ReservedWordsAreKeywords ==
    \A w \in ReservedWords :
        /\ \A i \in 1..Len(tokens) :
              tokens[i].lexeme = w[1] => tokens[i].token_type = w[2]
        /\ \A i \in 1..Len(symbol_table.symbols) :
              symbol_table.symbols[i].name # w[1]

\* C12 witness: in "int" followed by U+00E9 the keyword rule fails at the
\* word boundary, the identifier rule matches "int", and the re-check has
\* made it an Int token; the run has then failed on U+00E9.
C12_Witness ==
    /\ Returned("Err")
    /\ source = <<"i", "n", "t", "C3", "A9">>
    /\ tokens = <<Token("Int", Text_int, 1, 1)>>
    /\ symbol_table.symbols = <<>>

\* the kinds of the reserved keywords and of the boolean literals
WholeWordKinds ==
    {w[2] : w \in ReservedWords} \cup {"Include", "Define", "BoolLiteral"}

\* C13: a scan step pushes a token of a keyword kind or of kind BoolLiteral
\* only where the character before the lexeme and the character after it
\* are no letter, digit or underscore.
C13_KeywordsAreWholeWords ==
    [][(pc = "match" /\ Pushes
            /\ Last(tokens').token_type \in WholeWordKinds)
          => /\ ~WordAt(source, position)
             /\ ~WordAt(source, position + Len(Last(tokens').lexeme) + 1)]_vars

\* the name of the type of each of the five type keyword kinds
TypeNames ==
    [Int |-> "int", Float |-> "float", Char |-> "char", Bool |-> "bool",
     String |-> "string"]

\* C14: a scan step that pushes a token of a type keyword kind leaves that
\* type's name as the pending declared type, whatever was pending before
\* and whichever rule matched the lexeme.
C14_TypeKeywordSetsPending ==
    [][(pc = "match" /\ Pushes
            /\ Last(tokens').token_type \in DOMAIN TypeNames)
          => last_type_keyword' =
                 Some(TypeNames[Last(tokens').token_type])]_vars

\* C15: a scan step that pushes a token of a kind other than a type
\* keyword, a control keyword or Identifier, and every step at the head of
\* the loop, the whitespace skip among them, leaves the pending declared
\* type and the symbol table as they were.
C15_OtherTokensKeepPending ==
    [][(\/ pc = "loop"
        \/ /\ pc = "match" /\ Pushes
           /\ Last(tokens').token_type \notin
                  DOMAIN TypeNames \cup ControlKeywords \cup {"Identifier"})
          => /\ last_type_keyword' = last_type_keyword
             /\ symbol_table' = symbol_table]_vars

\* C15 witness: in "int \n,y" the pending type has survived the newline and
\* the comma: y is an "int", on line 2.
C15_Witness ==
    /\ Returned("Ok")
    /\ source = <<"i", "n", "t", " ", "\n", ",", "y">>
    /\ tokens[2].token_type = "Comma"
    /\ Len(symbol_table.symbols) = 1
    /\ symbol_table.symbols[1].name = Text_y
    /\ symbol_table.symbols[1].data_type = "int"
    /\ symbol_table.symbols[1].line = 2

\* the two-character operators and their kinds
TwoCharOperators ==
    { <<<<"&", "&">>, "LogicalAnd">>,
      <<<<"|", "|">>, "LogicalOr">>,
      <<<<"=", "=">>, "Equal">>,
      <<<<"!", "=">>, "NotEqual">>,
      <<<<"<", "=">>, "LessEqual">>,
      <<<<">", "=">>, "GreaterEqual">>,
      <<<<"+", "+">>, "Increment">>,
      <<<<"-", "-">>, "Decrement">> }

\* C16: a scan step at an offset where the next two characters are a
\* two-character operator pushes one token of that operator's kind with
\* the two characters as lexeme, and moves the cursor by two.
C16_TwoCharOperatorFirst ==
    [][\A op \in TwoCharOperators :
          (pc = "match" /\ HasPrefix(remaining, op[1]))
             => /\ tokens' = Append(tokens, Token(op[2], op[1], line, column))
                /\ position' = position + 2]_vars

\* C16 witness: "a==a" has been lexed to Identifier, Equal, Identifier, EOF
\* ("a==" at the smallest bound).
C16_Witness ==
    /\ Returned("Ok")
    /\ HasPrefix(source, <<"a", "=", "=">>)
    /\ Len(source) \in {3, 4}
    /\ tokens[1].token_type = "Identifier"
    /\ tokens[2] = Token("Equal", <<"=", "=">>, 1, 2)
    /\ Last(tokens) = EofToken(1, Len(source) + 1)
    /\ Len(tokens) = Len(source)

\* C17: the symbol table has one entry for each Identifier token, in the
\* tokens' order, with the token's lexeme as name and the token's line as
\* line; and no step removes or changes an entry.
C17_SymbolsFollowIdentifiers ==
    /\ Len(symbol_table.symbols) = Cardinality(IdentifiersUpTo(Len(tokens)))
    /\ \A k \in IdentifiersUpTo(Len(tokens)) :
          LET sym == symbol_table.symbols[Cardinality(IdentifiersUpTo(k))]
          IN  sym.name = tokens[k].lexeme /\ sym.line = tokens[k].line

C17_SymbolPerIdentifier ==
    /\ [](C17_SymbolsFollowIdentifiers)
    /\ [][SubSeq(symbol_table'.symbols, 1, Len(symbol_table.symbols))
            = symbol_table.symbols]_vars

\* C17 witness: "x\nx" has been lexed: two entries named x, on lines 1
\* and 2.
C17_Witness ==
    /\ Returned("Ok")
    /\ source = <<"x", "\n", "x">>
    /\ Len(symbol_table.symbols) = 2
    /\ symbol_table.symbols[1].name = Text_x /\ symbol_table.symbols[1].line = 1
    /\ symbol_table.symbols[2].name = Text_x /\ symbol_table.symbols[2].line = 2

\* C18: every Symbol is a "variable" of scope "global" whose data_type is
\* one of the five type names or "unknown", and the current scope of the
\* symbol table is "global" in every state.
C18_SymbolFields ==
    /\ symbol_table.current_scope = "global"
    /\ \A i \in 1..Len(symbol_table.symbols) :
          /\ symbol_table.symbols[i].symbol_type = "variable"
          /\ symbol_table.symbols[i].scope = "global"
          /\ symbol_table.symbols[i].data_type \in
                 {"int", "float", "char", "bool", "string", "unknown"}

\* C18 witness: a run has produced a symbol of a declared type and a
\* symbol of type "unknown".
C18_Witness ==
    /\ result # None
    /\ \E i, j \in 1..Len(symbol_table.symbols) :
          /\ symbol_table.symbols[i].data_type = "int"
          /\ symbol_table.symbols[j].data_type = "unknown"

\* the number of bytes of the lexemes of the tokens of toks, EOF left out
RECURSIVE LexemeBytes(_)
LexemeBytes(toks) ==
    IF toks = <<>> THEN 0
    ELSE (IF Head(toks).token_type = "EOF" THEN 0 ELSE Len(Head(toks).lexeme))
         + LexemeBytes(Tail(toks))

\* C19: every token pushed by a scan step has as lexeme a non-empty text that
\* stands in the source at the cursor offset, and the tokens do not overlap:
\* their lexemes, each a stretch of the source of its own, are together no
\* longer than the source.
C19_LexemesFit ==
    LexemeBytes(tokens) <= Len(source)

C19_TokensDoNotOverlap ==
    /\ [](C19_LexemesFit)
    /\ [][(pc = "match" /\ Pushes)
            => /\ Last(tokens').lexeme # <<>>
               /\ HasPrefix(remaining, Last(tokens').lexeme)]_vars

\* C20: every step of a running tokenize call goes on within the iteration
\* (from the whitespace skip to the match, or to the end of the loop),
\* moves the cursor forward, or returns Ok or Err; as the cursor is bounded
\* by the length of the source, the call then returns.
C20_Terminates ==
    [][(pc \in {"loop", "match", "eof"})
          => (\/ /\ pc = "loop"
                 /\ pc' \in {"match", "eof"}
                 /\ position' >= position
              \/ /\ pc = "match"
                 /\ pc' = "loop"
                 /\ position' > position
                 /\ position' <= Len(source)
              \/ /\ pc' = "idle"
                 /\ result' # None)]_vars

====
